---- MODULE Spec2Model ----
(***************************************************************************)
(* bingimage: one metadata fetch, then one concurrent task per requested   *)
(* resolution (download) plus an optional attribution task                 *)
(* (create_metadata), joined in order by main.                             *)
(*                                                                         *)
(* Text is modelled as a sequence of one-character strings, a byte as a    *)
(* string token, a file as a sequence of byte tokens.                      *)
(***************************************************************************)
EXTENDS Integers, Sequences, FiniteSets, TLC

(* ------------------------------------------------------------------ *)
(* Bounds                                                              *)
(* ------------------------------------------------------------------ *)

\* Largest number of -r occurrences on the command line.
MaxRes == 2

\* Largest number of steps of one run in which the environment misbehaves:
\* a request or a file call returns Err, the metadata document is not the
\* usual one, a write is short, a standard stream refuses a line.
MaxFaults == 1

(* ------------------------------------------------------------------ *)
(* Text helpers                                                        *)
(* ------------------------------------------------------------------ *)

Digit == <<"0", "1", "2", "3", "4", "5", "6", "7", "8", "9">>

RECURSIVE Decimal(_)
\* format!("{}", n) of an unsigned integer
Decimal(n) ==
    IF n < 10 THEN <<Digit[n + 1]>>
    ELSE Decimal(n \div 10) \o <<Digit[(n % 10) + 1]>>

\* Resolution::new
NewResolution(x, y) == [x |-> x, y |-> y]

\* Mutant of ResToString: the separator is left out
ResToStringNoSeparator(r) == Decimal(r.x) \o Decimal(r.y)

\* Resolution::to_string: format!("{}x{}", self.x, self.y)
ResToString(r) == Decimal(r.x) \o <<"x">> \o Decimal(r.y)

\* u16::MAX
U16Max == 65535

RECURSIVE Split(_, _)
\* str::split(c): the pieces between the occurrences of c, empty ones kept
Split(s, c) ==
    IF \A i \in 1..Len(s) : s[i] # c THEN <<s>>
    ELSE LET i == CHOOSE k \in 1..Len(s) : s[k] = c /\ \A j \in 1..(k - 1) : s[j] # c
         IN <<SubSeq(s, 1, i - 1)>> \o Split(SubSeq(s, i + 1, Len(s)), c)

RECURSIVE DecimalValue(_)
\* The number a text of ASCII digits denotes
DecimalValue(s) ==
    IF s = <<>> THEN 0
    ELSE DecimalValue(SubSeq(s, 1, Len(s) - 1)) * 10
            + ((CHOOSE d \in 1..10 : Digit[d] = s[Len(s)]) - 1)

\* str::parse of an unsigned integer type of the given maximum: an optional
\* '+', then at least one ASCII digit and nothing else, the value within range
ParseUnsigned(s, max) ==
    LET body == IF s # <<>> /\ Head(s) = "+" THEN Tail(s) ELSE s
    IN IF body = <<>> \/ \E i \in 1..Len(body) : \A d \in 1..10 : Digit[d] # body[i]
       THEN [ok |-> FALSE, n |-> 0]
       ELSE IF DecimalValue(body) > max THEN [ok |-> FALSE, n |-> 0]
       ELSE [ok |-> TRUE, n |-> DecimalValue(body)]

\* Mutant of ParseU16: the parts are parsed as u8
ParseU8(s) == ParseUnsigned(s, 255)

\* str::parse::<u16>
ParseU16(s) == ParseUnsigned(s, U16Max)

\* The literal replaced in the url template (download)
Marker == <<"1", "9", "2", "0", "x", "1", "0", "8", "0">>

\* The origin prefixed to the url (download)
Origin == <<"h", "t", "t", "p", "s", ":", "/", "/", "b", "i", "n", "g", ".", "c", "o", "m">>

StartsWith(s, p) == Len(s) >= Len(p) /\ SubSeq(s, 1, Len(p)) = p

RECURSIVE ReplaceFirst(_, _, _)
\* Mutant of Replace: only the first occurrence is replaced (replacen(.., 1))
ReplaceFirst(s, from, to) ==
    IF s = <<>> THEN <<>>
    ELSE IF StartsWith(s, from)
         THEN to \o SubSeq(s, Len(from) + 1, Len(s))
         ELSE <<Head(s)>> \o ReplaceFirst(Tail(s), from, to)

RECURSIVE Replace(_, _, _)
\* str::replace(from, to): every non-overlapping occurrence, left to right
Replace(s, from, to) ==
    IF s = <<>> THEN <<>>
    ELSE IF StartsWith(s, from)
         THEN to \o Replace(SubSeq(s, Len(from) + 1, Len(s)), from, to)
         ELSE <<Head(s)>> \o Replace(Tail(s), from, to)

\* download: the url requested for a template and a resolution text
DeriveUrl(template, res_string) == Origin \o Replace(template, Marker, res_string)

\* download: format!("{}.jpg", res_string), joined to the output directory
ImagePath(res_string) == res_string \o <<".", "j", "p", "g">>

\* create_metadata: file_name = "README.md"
ReadmePath == <<"R", "E", "A", "D", "M", "E", ".", "m", "d">>

\* create_metadata: format!("# {}\n## {}\n", title, copyright)
MetadataMd(title, copyright) ==
    <<"#", " ">> \o title \o <<"\n", "#", "#", " ">> \o copyright \o <<"\n">>

RECURSIVE AsBytes(_)
\* str::as_bytes: the UTF-8 encoding; the copyright sign takes two bytes
AsBytes(s) ==
    IF s = <<>> THEN <<>>
    ELSE (IF Head(s) = "(c)" THEN <<"xC2", "xA9">> ELSE <<Head(s)>>) \o AsBytes(Tail(s))

(* ------------------------------------------------------------------ *)
(* serde_json::Value                                                   *)
(* ------------------------------------------------------------------ *)

JNull == [type |-> "null"]
JStr(s) == [type |-> "string", s |-> s]
JNum(n) == [type |-> "number", n |-> n]
JArr(items) == [type |-> "array", items |-> items]
JObj(fields) == [type |-> "object", fields |-> fields]

\* Value's Index<&str>: Null unless an object holding the key
IndexKey(v, key) ==
    IF v.type = "object" /\ key \in DOMAIN v.fields THEN v.fields[key] ELSE JNull

\* Value's Index<usize>: Null unless an array long enough
IndexNum(v, n) ==
    IF v.type = "array" /\ n < Len(v.items) THEN v.items[n + 1] ELSE JNull

RECURSIVE Escape(_)
\* JSON string escaping of the Display form
Escape(s) ==
    IF s = <<>> THEN <<>>
    ELSE (CASE Head(s) = "\"" -> <<"\\", "\"">>
            [] Head(s) = "\\" -> <<"\\", "\\">>
            [] Head(s) = "\n" -> <<"\\", "n">>
            [] OTHER -> <<Head(s)>>) \o Escape(Tail(s))

\* Value::to_string of a scalar: a string comes out quoted and escaped
JsonToString(v) ==
    CASE v.type = "null" -> <<"n", "u", "l", "l">>
      [] v.type = "string" -> <<"\"">> \o Escape(v.s) \o <<"\"">>
      [] v.type = "number" -> Decimal(v.n)

RECURSIVE TrimStart(_, _)
TrimStart(s, c) ==
    IF s # <<>> /\ Head(s) = c THEN TrimStart(Tail(s), c) ELSE s

RECURSIVE TrimEnd(_, _)
TrimEnd(s, c) ==
    IF s # <<>> /\ s[Len(s)] = c THEN TrimEnd(SubSeq(s, 1, Len(s) - 1), c) ELSE s

\* str::trim_matches(c): every leading and every trailing c
TrimMatches(s, c) == TrimEnd(TrimStart(s, c), c)

\* main: meta[field].to_string().trim_matches('"').to_string()
MetaField(m, key) == TrimMatches(JsonToString(IndexKey(m, key)), "\"")

(* ------------------------------------------------------------------ *)
(* The environment: what the command line, the network and the file    *)
(* system can hand to the program                                      *)
(* ------------------------------------------------------------------ *)

\* Resolutions the -r occurrences may name
FirstRes == NewResolution(1, 11)
ResPool == {FirstRes, NewResolution(11, 1)}

\* The validated command line: one to MaxRes resolutions, duplicates allowed
\* (main does not remove them). The program only renders a resolution, so the
\* lists are taken up to renaming: each starts with FirstRes.
ResLists == {l \in UNION {[1..n -> ResPool] : n \in 1..MaxRes} : l[1] = FirstRes}

\* Widths and heights a -r value may name, the ends of the u16 range among them
ArgNumbers == {0, 10, 1080, U16Max}

\* Values of -r that are no rendering of a resolution: a part missing, no
\* separator, three parts, a part out of range, a sign, leading zeros, a
\* capital separator
OtherArgs ==
    { <<"1", "x">>, <<"x">>, <<"1", "2">>, <<"1", "x", "2", "x", "3">>,
      <<"6", "5", "5", "3", "6", "x", "1">>, <<"+", "1", "x", "1">>,
      <<"-", "1", "x", "1">>, <<"0", "1", "x", "1">>, <<"1", "X", "1">> }

\* Values the -r occurrences may carry
ArgValues ==
    {ResToString(NewResolution(x, y)) : x \in ArgNumbers, y \in ArgNumbers}
        \cup OtherArgs

\* The -r occurrences of a command line (clap: required, multiple occurrences)
ArgLists == UNION {[1..n -> ArgValues] : n \in 1..MaxRes}

TemplateUrl == <<"/", "t", "h", "_">> \o Marker \o <<".", "j", "p", "g">>

\* An unusual template: the marker twice, back to back
TwiceUrl == <<"/">> \o Marker \o Marker
TitleText == <<"E", "x">>
CopyrightText == <<"(c)", "2", "4">>

ImageEntry ==
    JObj([url |-> JStr(TemplateUrl), title |-> JStr(TitleText),
          copyright |-> JStr(CopyrightText)])

\* Bodies the metadata endpoint may answer with that parse as JSON: the usual
\* one, one without images, one whose image lacks the url, one whose image
\* lacks the title, one with the unusual template
JsonBodies ==
    << JObj([images |-> JArr(<<ImageEntry>>)]),
       JObj([market |-> JStr(<<"e", "n">>)]),
       JObj([images |-> JArr(<<JObj([title |-> JStr(TitleText),
                                     copyright |-> JStr(CopyrightText)])>>)]),
       JObj([images |-> JArr(<<JObj([url |-> JStr(TemplateUrl),
                                     copyright |-> JStr(CopyrightText)])>>)]),
       JObj([images |-> JArr(<<JObj([url |-> JStr(TwiceUrl), title |-> JStr(TitleText),
                                     copyright |-> JStr(CopyrightText)])>>)]) >>

\* The statuses the image host may answer a request with
Statuses == {200, 404}

\* The image payload the image endpoint answers with
ImageBody == <<"xFF", "xD8">>

OldContent == <<"o", "l", "d">>

\* The output directory before the run: one image and the readme left by
\* an earlier run, nothing at the other paths
InitFs ==
    [p \in {ImagePath(ResToString(FirstRes)), ReadmePath} |-> OldContent]

(* ------------------------------------------------------------------ *)
(* State                                                               *)
(* ------------------------------------------------------------------ *)

VARIABLES
    argv,         \* main: app.values_of("resolution"), the values of the -r occurrences
    resolutions,  \* main: Vec<Arc<Resolution>> parsed from the -r occurrences
    readme,       \* main: app.is_present("readme")
    pc,           \* main: where the async body stands
    exit,         \* main: the Result it returned: "none" until then, "ok", "err"
    metaStatus,   \* the metadata fetch: "pending", "ok", "network", "decode"
    metaReqs,     \* number of requests sent to the metadata endpoint
    answered,     \* which of JsonBodies the metadata endpoint answered with (0: none)
    url,          \* main: Arc<String> url template
    title,        \* main: Arc<String> title
    copyright,    \* main: Arc<String> copyright
    tasks,        \* main: handles, each with the state of the task spawned for it
    joined,       \* main: number of handles the join loop has consumed
    fs,           \* the output directory: path -> file content
    imageStatus,  \* the status the image host answers with during this run
    run,          \* which invocation of the program on this directory this is
    left,         \* the output directory as the invocation before this one left it
    faults        \* number of faults the environment has injected so far

vars == <<argv, resolutions, readme, pc, exit, metaStatus, metaReqs, answered, url,
          title, copyright, tasks, joined, fs, imageStatus, run, left, faults>>

config == <<argv, resolutions, readme>>
before == <<run, left>>
host == <<imageStatus>>
meta == <<url, title, copyright>>

\* A task as tokio::spawn creates it: the future holds its ImageProperties.
\* A printed line is kept as its text and the name of the variable it shows.
NewTask(kind, resolution) ==
    [kind |-> kind,              \* "image" (download) or "readme" (create_metadata)
     resolution |-> resolution,  \* properties.resolution
     pc |-> "start",
     sent |-> 0,                 \* requests this task has sent, each to its url
     status |-> 0,               \* the status of the response received (0: none)
     stage |-> "none",           \* the stage whose Err arm was taken
     wrote |-> -1,               \* the length file.write returned
     synced |-> FALSE,           \* sync_all returned Ok
     out |-> <<>>,               \* lines printed on stdout
     err |-> <<>>]               \* lines printed on stderr

\* Positions at which a task is suspended in the runtime (not being polled)
Suspended == {"start", "get", "bytes"}

\* Positions at which a task has ended
Ended == {"returned", "panicked", "cancelled"}

Tasks == 1..Len(tasks)

Init ==
    /\ resolutions \in ResLists
    /\ argv = [i \in 1..Len(resolutions) |-> ResToString(resolutions[i])]
    /\ readme \in BOOLEAN
    /\ pc = "meta_get"
    /\ exit = "none"
    /\ metaStatus = "pending"
    /\ metaReqs = 0
    /\ answered = 0
    /\ url = <<>>
    /\ title = <<>>
    /\ copyright = <<>>
    /\ tasks = <<>>
    /\ joined = 0
    /\ fs = InitFs
    /\ imageStatus = 200
    /\ run = 1
    /\ left = InitFs
    /\ faults = 0

\* The environment misbehaves in this step if the flag is set, within its budget
Inject(faulty) ==
    IF faulty THEN faults < MaxFaults /\ faults' = faults + 1 ELSE UNCHANGED faults

(* ------------------------------------------------------------------ *)
(* main                                                                *)
(* ------------------------------------------------------------------ *)

\* Mutant of MetaFailed: the error is swallowed and main goes on to the fan-out
MetaFailedSwallowed(kind) ==
    /\ pc' = "spawn"
    /\ metaStatus' = kind
    /\ UNCHANGED <<exit, meta, tasks>>

\* The ? of the metadata fetch: main returns the error; nothing is spawned
MetaFailed(kind) ==
    /\ pc' = "done"
    /\ exit' = "err"
    /\ metaStatus' = kind
    /\ UNCHANGED <<meta, tasks>>

\* reqwest::get(..).await? : the request completes, or the error is returned
MetaGet ==
    /\ pc = "meta_get"
    /\ metaReqs' = metaReqs + 1
    /\ \/ /\ Inject(FALSE)
          /\ pc' = "meta_json"
          /\ UNCHANGED <<exit, metaStatus, meta, tasks>>
       \/ /\ Inject(TRUE)
          /\ MetaFailed("network")
    /\ UNCHANGED <<config, before, host, answered, joined, fs>>

\* .json::<JsonValue>().await? : the body parses, or the error is returned;
\* then let meta = &json["images"][0]; url, title, copyright; handles = Vec::new()
MetaJson ==
    /\ pc = "meta_json"
    /\ \/ /\ \E k \in 1..Len(JsonBodies) :
               LET json == JsonBodies[k]
                   m == IndexNum(IndexKey(json, "images"), 0)
               IN /\ Inject(k > 1)
                  /\ answered' = k
                  /\ url' = MetaField(m, "url")
                  /\ title' = MetaField(m, "title")
                  /\ copyright' = MetaField(m, "copyright")
          /\ tasks' = <<>>
          /\ pc' = "spawn"
          /\ metaStatus' = "ok"
          /\ UNCHANGED exit
       \/ /\ Inject(TRUE)
          /\ MetaFailed("decode")
          /\ UNCHANGED answered
    /\ UNCHANGED <<config, before, host, metaReqs, joined, fs>>

\* for resolution in resolutions { handles.push(tokio::spawn(download(..))) }
SpawnDownload ==
    /\ pc = "spawn"
    /\ Len(tasks) < Len(resolutions)
    /\ tasks' = Append(tasks, NewTask("image", resolutions[Len(tasks) + 1]))
    /\ UNCHANGED <<config, before, host, pc, exit, metaStatus, metaReqs, answered, meta, joined, fs,
                   faults>>

\* Mutant of ReadmeRequested: the attribution task is spawned whatever the flag
ReadmeAlways == TRUE

\* app.is_present("readme")
ReadmeRequested == readme

\* if app.is_present("readme") { handles.push(tokio::spawn(create_metadata(..))) }
SpawnReadme ==
    /\ pc = "spawn"
    /\ Len(tasks) = Len(resolutions)
    /\ tasks' = IF ReadmeRequested
                THEN Append(tasks, NewTask("readme", NewResolution(0, 0)))
                ELSE tasks
    /\ pc' = "join"
    /\ UNCHANGED <<config, before, host, exit, metaStatus, metaReqs, answered, meta, joined, fs,
                   faults>>

\* Dropping the runtime when main returns: a task suspended at an await (or
\* never polled) is dropped there; one being polled finishes its poll.
Shutdown(ts) ==
    [t \in DOMAIN ts |->
        IF ts[t].pc \in Suspended THEN [ts[t] EXCEPT !.pc = "cancelled"] ELSE ts[t]]

\* tokio::try_join!(handle)? on the next handle, once its task has ended:
\* Ok goes on to the next handle, a JoinError (the task panicked) is returned.
Join ==
    /\ pc = "join"
    /\ joined < Len(tasks)
    /\ \/ /\ tasks[joined + 1].pc = "returned"
          /\ joined' = joined + 1
          /\ UNCHANGED <<pc, exit, tasks>>
       \/ /\ tasks[joined + 1].pc = "panicked"
          /\ pc' = "done"
          /\ exit' = "err"
          /\ tasks' = Shutdown(tasks)
          /\ UNCHANGED joined
    /\ UNCHANGED <<config, before, host, metaStatus, metaReqs, answered, meta, fs, faults>>

\* Ok(()) after the join loop
Return ==
    /\ pc = "join"
    /\ joined = Len(tasks)
    /\ pc' = "done"
    /\ exit' = "ok"
    /\ UNCHANGED <<config, before, host, metaStatus, metaReqs, answered, meta, tasks, joined, fs,
                   faults>>

(* ------------------------------------------------------------------ *)
(* The file system calls both tasks make                               *)
(* ------------------------------------------------------------------ *)

\* File::create: the file exists afterwards and is empty
Created(files, path) ==
    [p \in DOMAIN files \cup {path} |-> IF p = path THEN <<>> ELSE files[p]]

\* Mutant of Written: the bytes are appended to what the file held before
\* this invocation (a handle opened with OpenOptions::append, no truncation)
WrittenAppending(files, path, bytes, n) ==
    [files EXCEPT ![path] =
        (IF path \in DOMAIN left THEN left[path] ELSE <<>>) \o SubSeq(bytes, 1, n)]

\* file.write(&bytes) returning Ok(n): the first n bytes land at offset 0 of
\* the handle opened by File::create
Written(files, path, bytes, n) ==
    [files EXCEPT ![path] =
        SubSeq(bytes, 1, n) \o SubSeq(files[path], n + 1, Len(files[path]))]

\* The lengths file.write may return for a payload of n bytes: nothing, one
\* byte, all but one byte, everything
WriteResults(n) == {k \in 0..n : k <= 1 \/ k >= n - 1}

\* The test both tasks make on the length file.write returned
WriteRejected(len, payloadLen) == len > payloadLen

\* The lines the tasks print: the text and which variable it interpolates
OkLine == [text |-> "Successfully written file", target |-> "file_path"]
ErrLine(text, target) == [text |-> text, target |-> target]

\* println!/eprintln! followed by return: the line reaches the stream and the
\* task returns, or the stream refuses it and the macro panics
Printed(task, stream, line, panics) ==
    IF panics THEN [task EXCEPT !.pc = "panicked"]
    ELSE IF stream = "stdout"
         THEN [task EXCEPT !.pc = "returned", !.out = Append(@, line)]
         ELSE [task EXCEPT !.pc = "returned", !.err = Append(@, line)]

\* An Err arm: eprintln!(text, target, error); return
Failing(task, stage, text, target, panics) ==
    Printed([task EXCEPT !.stage = stage], "stderr", ErrLine(text, target), panics)

mainVars == <<config, before, host, pc, exit, metaStatus, metaReqs, answered, meta, joined>>

(* ------------------------------------------------------------------ *)
(* What a task computes in its first poll from its ImageProperties     *)
(* ------------------------------------------------------------------ *)

\* download: url; the template is main's url, shared through the Arc
TaskUrl(t) == DeriveUrl(url, ResToString(tasks[t].resolution))

\* Mutant of TaskPath: the file name of an image carries the task's number
TaskPathNumbered(t) ==
    IF tasks[t].kind = "image"
    THEN ImagePath(ResToString(tasks[t].resolution) \o <<"_">> \o Decimal(t))
    ELSE ReadmePath

\* download: file_path; create_metadata: file_path
TaskPath(t) ==
    IF tasks[t].kind = "image" THEN ImagePath(ResToString(tasks[t].resolution))
    ELSE ReadmePath

\* download: bytes, the body received; create_metadata: metadata_md.as_bytes()
TaskPayload(t) ==
    IF tasks[t].kind = "image" THEN ImageBody
    ELSE AsBytes(MetadataMd(title, copyright))

(* ------------------------------------------------------------------ *)
(* download                                                            *)
(* ------------------------------------------------------------------ *)

\* Mutant of DownloadStart: the task asks the metadata endpoint again first
DownloadStartRefetching(t) ==
    /\ tasks[t].kind = "image"
    /\ tasks[t].pc = "start"
    /\ metaReqs' = metaReqs + 1
    /\ tasks' = [tasks EXCEPT ![t].sent = @ + 1, ![t].pc = "get"]
    /\ UNCHANGED <<config, before, host, pc, exit, metaStatus, answered, meta, joined, fs, faults>>

\* Mutant of DownloadStart: the file is created before the request is sent
DownloadStartCreating(t) ==
    /\ tasks[t].kind = "image"
    /\ tasks[t].pc = "start"
    /\ tasks' = [tasks EXCEPT ![t].sent = @ + 1, ![t].pc = "get"]
    /\ fs' = Created(fs, TaskPath(t))
    /\ UNCHANGED <<mainVars, faults>>

\* The first poll: res_string, file_name, file_path, url; the request is sent
DownloadStart(t) ==
    /\ tasks[t].kind = "image"
    /\ tasks[t].pc = "start"
    /\ tasks' = [tasks EXCEPT ![t].sent = @ + 1, ![t].pc = "get"]
    /\ UNCHANGED <<mainVars, fs, faults>>

\* Mutant of ResponseArm: a status of 400 and above is turned into an error
\* (error_for_status) and takes the Err arm
ResponseArmChecked(task, status) ==
    IF status >= 400
    THEN Failing([task EXCEPT !.status = status], "fetch", "Error downloading from",
                 "url", FALSE)
    ELSE [task EXCEPT !.status = status, !.pc = "bytes"]

\* The arm Ok(response): the body is read next, whatever response.status() is
ResponseArm(task, status) == [task EXCEPT !.status = status, !.pc = "bytes"]

\* reqwest::get(&url).await: Ok(response), or Err(error)
DownloadGet(t) ==
    /\ tasks[t].kind = "image"
    /\ tasks[t].pc = "get"
    /\ \/ /\ tasks' = [tasks EXCEPT ![t] = ResponseArm(@, imageStatus)]
          /\ Inject(FALSE)
       \/ \E panics \in BOOLEAN :
            /\ Inject(TRUE)
            /\ tasks' = [tasks EXCEPT ![t] =
                   Failing(@, "fetch", "Error downloading from", "url", panics)]
    /\ UNCHANGED <<mainVars, fs>>

\* response.bytes().await: Ok(bytes), or Err(error)
DownloadBytes(t) ==
    /\ tasks[t].kind = "image"
    /\ tasks[t].pc = "bytes"
    /\ \/ /\ tasks' = [tasks EXCEPT ![t].pc = "create"]
          /\ Inject(FALSE)
       \/ \E panics \in BOOLEAN :
            /\ Inject(TRUE)
            /\ tasks' = [tasks EXCEPT ![t] =
                   Failing(@, "body", "Error downloading from", "url", panics)]
    /\ UNCHANGED <<mainVars, fs>>

(* ------------------------------------------------------------------ *)
(* create_metadata                                                     *)
(* ------------------------------------------------------------------ *)

\* The first poll: metadata_md, file_name, file_path
ReadmeStart(t) ==
    /\ tasks[t].kind = "readme"
    /\ tasks[t].pc = "start"
    /\ tasks' = [tasks EXCEPT ![t].pc = "create"]
    /\ UNCHANGED <<mainVars, fs, faults>>

(* ------------------------------------------------------------------ *)
(* The persisting half, written out twice in the source: in download   *)
(* and in create_metadata                                              *)
(* ------------------------------------------------------------------ *)

\* match File::create(&file_path)
FileCreate(t) ==
    /\ tasks[t].pc = "create"
    /\ \/ /\ fs' = Created(fs, TaskPath(t))
          /\ tasks' = [tasks EXCEPT ![t].pc = "write"]
          /\ Inject(FALSE)
       \/ /\ \E panics \in BOOLEAN :
               /\ Inject(TRUE)
               /\ tasks' = [tasks EXCEPT ![t] =
                      Failing(@, "create", "Error creating file", "file_path", panics)]
          /\ UNCHANGED fs
    /\ UNCHANGED mainVars

\* match file.write(&bytes): Ok(len) with the length test, or Err(error)
FileWrite(t) ==
    /\ tasks[t].pc = "write"
    /\ \/ \E len \in WriteResults(Len(TaskPayload(t))), panics \in BOOLEAN :
            /\ fs' = Written(fs, TaskPath(t), TaskPayload(t), len)
            /\ Inject(len < Len(TaskPayload(t)) \/ panics)
            /\ IF WriteRejected(len, Len(TaskPayload(t)))
               THEN tasks' = [tasks EXCEPT ![t] =
                        Failing([@ EXCEPT !.wrote = len], "write",
                                "Error writing file: entire file may not have been written",
                                "file_path", panics)]
               ELSE /\ ~panics
                    /\ tasks' = [tasks EXCEPT ![t].wrote = len, ![t].pc = "sync"]
       \/ /\ \E panics \in BOOLEAN :
               /\ Inject(TRUE)
               /\ tasks' = [tasks EXCEPT ![t] =
                      Failing(@, "write", "Error writing file", "file_path", panics)]
          /\ UNCHANGED fs
    /\ UNCHANGED mainVars

\* Mutant of SyncArm: the result of sync_all is dropped and success is printed
SyncArmUnchecked(task, ok, panics) ==
    Printed([task EXCEPT !.synced = ok], "stdout", OkLine, panics)

\* The arms of match file.sync_all(): Ok prints the success line and returns,
\* Err prints the error line and returns
SyncArm(task, ok, panics) ==
    IF ok THEN Printed([task EXCEPT !.synced = TRUE], "stdout", OkLine, panics)
    ELSE Failing(task, "sync", "Error writing file", "file_path", panics)

\* Mutant of FileSync: the Err arm removes the file it could not sync
FileSyncRemoving(t) ==
    /\ tasks[t].pc = "sync"
    /\ \E ok \in BOOLEAN, panics \in BOOLEAN :
         /\ Inject(~ok \/ panics)
         /\ tasks' = [tasks EXCEPT ![t] = SyncArm(@, ok, panics)]
         /\ fs' = IF ok THEN fs
                  ELSE [p \in DOMAIN fs \ {TaskPath(t)} |-> fs[p]]
    /\ UNCHANGED mainVars

\* file.sync_all() and its match
FileSync(t) ==
    /\ tasks[t].pc = "sync"
    /\ \E ok \in BOOLEAN, panics \in BOOLEAN :
         /\ Inject(~ok \/ panics)
         /\ tasks' = [tasks EXCEPT ![t] = SyncArm(@, ok, panics)]
    /\ UNCHANGED <<mainVars, fs>>

Next ==
    \/ MetaGet
    \/ MetaJson
    \/ SpawnDownload
    \/ SpawnReadme
    \/ Join
    \/ Return
    \/ \E t \in Tasks : DownloadStart(t)
    \/ \E t \in Tasks : DownloadGet(t)
    \/ \E t \in Tasks : DownloadBytes(t)
    \/ \E t \in Tasks : ReadmeStart(t)
    \/ \E t \in Tasks : FileCreate(t)
    \/ \E t \in Tasks : FileWrite(t)
    \/ \E t \in Tasks : FileSync(t)

Spec == Init /\ [][Next]_vars

(* ------------------------------------------------------------------ *)
(* Runs with a single -r occurrence, over a wider range of resolutions *)
(* ------------------------------------------------------------------ *)

\* The resolution of the single -r: the one of Init, the marker's own, and
\* the ends of the u16 range
OnePool == {FirstRes, NewResolution(1920, 1080), NewResolution(0, U16Max)}

InitOne ==
    /\ resolutions \in {<<r>> : r \in OnePool}
    /\ argv = [i \in 1..Len(resolutions) |-> ResToString(resolutions[i])]
    /\ readme \in BOOLEAN
    /\ pc = "meta_get"
    /\ exit = "none"
    /\ metaStatus = "pending"
    /\ metaReqs = 0
    /\ answered = 0
    /\ url = <<>>
    /\ title = <<>>
    /\ copyright = <<>>
    /\ tasks = <<>>
    /\ joined = 0
    /\ fs = InitFs
    /\ imageStatus \in Statuses
    /\ run = 1
    /\ left = InitFs
    /\ faults = 0

SpecOne == InitOne /\ [][Next]_vars

(* ------------------------------------------------------------------ *)
(* The start of main: the -r values are parsed into resolutions        *)
(* ------------------------------------------------------------------ *)

\* Error::exit(&res_error): the process exits, nothing has been fetched
UsageExit ==
    /\ pc' = "done"
    /\ exit' = "usage"
    /\ UNCHANGED resolutions

\* One round of `for value in values`: split on 'x', two parts wanted, each
\* parsed as u16, the resolution pushed
ParseArg ==
    /\ pc = "args"
    /\ Len(resolutions) < Len(argv)
    /\ LET value == argv[Len(resolutions) + 1]
           split == Split(value, "x")
       IN IF Len(split) # 2 THEN UsageExit
          ELSE LET x == ParseU16(split[1])
                   y == ParseU16(split[2])
               IN IF ~x.ok \/ ~y.ok THEN UsageExit
                  ELSE /\ resolutions' = Append(resolutions, NewResolution(x.n, y.n))
                       /\ UNCHANGED <<pc, exit>>
    /\ UNCHANGED <<argv, readme, before, host, metaStatus, metaReqs, answered, meta, tasks,
                   joined, fs, faults>>

\* The loop is over; the output path is a directory (it is in every run of
\* this model), main goes on to the metadata fetch
ArgsDone ==
    /\ pc = "args"
    /\ Len(resolutions) = Len(argv)
    /\ pc' = "meta_get"
    /\ UNCHANGED <<config, before, host, exit, metaStatus, metaReqs, answered, meta, tasks,
                   joined, fs, faults>>

\* The process as it starts, before any -r value is looked at
InitArgs ==
    /\ argv \in ArgLists
    /\ resolutions = <<>>
    /\ readme \in BOOLEAN
    /\ pc = "args"
    /\ exit = "none"
    /\ metaStatus = "pending"
    /\ metaReqs = 0
    /\ answered = 0
    /\ url = <<>>
    /\ title = <<>>
    /\ copyright = <<>>
    /\ tasks = <<>>
    /\ joined = 0
    /\ fs = InitFs
    /\ imageStatus = 200
    /\ run = 1
    /\ left = InitFs
    /\ faults = 0

NextArgs ==
    \/ ParseArg
    \/ ArgsDone

SpecArgs == InitArgs /\ [][NextArgs]_vars

(* ------------------------------------------------------------------ *)
(* Two invocations on the same directory, with an environment that     *)
(* never misbehaves                                                    *)
(* ------------------------------------------------------------------ *)

\* The program is invoked again once main has returned Ok: same command
\* line, same directory, a fresh process
Restart ==
    /\ pc = "done"
    /\ exit = "ok"
    /\ run = 1
    /\ run' = run + 1
    /\ left' = fs
    /\ pc' = "meta_get"
    /\ exit' = "none"
    /\ metaStatus' = "pending"
    /\ metaReqs' = 0
    /\ answered' = 0
    /\ url' = <<>>
    /\ title' = <<>>
    /\ copyright' = <<>>
    /\ tasks' = <<>>
    /\ joined' = 0
    /\ UNCHANGED <<config, host, fs, faults>>

\* As Init, with the environment's budget of faults used up
InitTwice ==
    /\ resolutions \in ResLists
    /\ argv = [i \in 1..Len(resolutions) |-> ResToString(resolutions[i])]
    /\ readme \in BOOLEAN
    /\ pc = "meta_get"
    /\ exit = "none"
    /\ metaStatus = "pending"
    /\ metaReqs = 0
    /\ answered = 0
    /\ url = <<>>
    /\ title = <<>>
    /\ copyright = <<>>
    /\ tasks = <<>>
    /\ joined = 0
    /\ fs \in {InitFs, [p \in {} |-> <<>>]}
    /\ imageStatus = 200
    /\ run = 1
    /\ left = fs
    /\ faults = MaxFaults

NextTwice ==
    \/ Next
    \/ Restart

SpecTwice == InitTwice /\ [][NextTwice]_vars

(* ------------------------------------------------------------------ *)
(* Vocabulary of the properties                                        *)
(* ------------------------------------------------------------------ *)

\* The requested resolutions are pairwise distinct
Distinct ==
    \A i, j \in 1..Len(resolutions) : i # j => resolutions[i] # resolutions[j]

\* The task has ended by itself: it returned, or it panicked
Finished(t) == tasks[t].pc \in {"returned", "panicked"}

\* File::create has returned Ok in the task
Opened(t) ==
    \/ tasks[t].pc \in {"write", "sync"}
    \/ tasks[t].stage \in {"write", "sync"}
    \/ tasks[t].wrote >= 0

\* file.write returned Ok(len) with len below the payload length
ShortWrite(t) == tasks[t].wrote >= 0 /\ tasks[t].wrote < Len(TaskPayload(t))

\* The task printed its success line
SaidSuccess(t) == tasks[t].out # <<>>

\* The metadata document holds images[0] with the three string fields
Complete(json) ==
    LET m == IndexNum(IndexKey(json, "images"), 0)
    IN \A key \in {"url", "title", "copyright"} : IndexKey(m, key).type = "string"

\* The fan-out is over: main is in the join loop or has left it
FannedOut == metaStatus = "ok" /\ pc \in {"join", "done"}

(* ------------------------------------------------------------------ *)
(* C1                                                                  *)
(* ------------------------------------------------------------------ *)

\* C1: with distinct resolutions, when a task has failed at one of its stages
\* (fetch, body, create, write, sync), no other task is kept from running its
\* own stages (it is never cancelled), and a task whose own stages all
\* succeeded and wrote the whole payload has its file holding that payload.
C1_FailureIsolation ==
    Distinct =>
        \A t, u \in Tasks :
            /\ (t # u /\ tasks[t].stage # "none") => tasks[u].pc # "cancelled"
            /\ (tasks[u].pc = "returned" /\ tasks[u].stage = "none" /\ ~ShortWrite(u))
                   => fs[TaskPath(u)] = TaskPayload(u)

(* ------------------------------------------------------------------ *)
(* C2                                                                  *)
(* ------------------------------------------------------------------ *)

\* C2: when the metadata fetch has failed (the request, or the parse of the
\* body), main has returned an error, no task has been spawned and the output
\* directory is as it was before the run.
C2_MetadataFailureIsFatal ==
    metaStatus \in {"network", "decode"} =>
        /\ pc = "done"
        /\ exit = "err"
        /\ tasks = <<>>
        /\ fs = InitFs

\* The body of the metadata response did not parse and main has returned
C2_Witness == metaStatus = "decode" /\ pc = "done" /\ exit = "err"

(* ------------------------------------------------------------------ *)
(* C3                                                                  *)
(* ------------------------------------------------------------------ *)

\* C3: main leaves the join loop only when every spawned task has ended by
\* itself, however the tasks joined earlier ended.
C3_JoinsEveryTask ==
    (metaStatus = "ok" /\ pc = "done") => \A t \in Tasks : Finished(t)

(* ------------------------------------------------------------------ *)
(* C4                                                                  *)
(* ------------------------------------------------------------------ *)

\* C4: once the metadata fetch has succeeded, main returns Ok whatever the
\* tasks' outcomes.
C4_ExitOkAfterFanOut ==
    (metaStatus = "ok" /\ pc = "done") => exit = "ok"

(* ------------------------------------------------------------------ *)
(* C5                                                                  *)
(* ------------------------------------------------------------------ *)

\* C5: a task whose write returned fewer bytes than the payload holds goes no
\* further than its error line: it never syncs and never prints success.
C5_ShortWriteIsFailure ==
    \A t \in Tasks :
        ShortWrite(t) => tasks[t].pc # "sync" /\ ~tasks[t].synced /\ ~SaidSuccess(t)

(* ------------------------------------------------------------------ *)
(* C6                                                                  *)
(* ------------------------------------------------------------------ *)

C7_AbsentFieldsAreFatal ==
    (answered > 0 /\ ~Complete(JsonBodies[answered])) =>
        /\ metaStatus = "decode"
        /\ tasks = <<>>
        /\ fs = InitFs

(* ------------------------------------------------------------------ *)
(* C8                                                                  *)
(* ------------------------------------------------------------------ *)

\* C8: after the fan-out there is one image task per requested resolution, in
\* order, and one more task, the attribution task, exactly if the flag is set;
\* with distinct resolutions the image tasks' file names differ pairwise; the
\* attribution task never sends a request. During the fan-out no more tasks
\* exist than that.
C8_TaskCount ==
    LET N == Len(resolutions)
    IN /\ Len(tasks) <= N + (IF readme THEN 1 ELSE 0)
       /\ \A t \in Tasks :
            /\ t <= N => tasks[t].kind = "image" /\ tasks[t].resolution = resolutions[t]
            /\ t > N => tasks[t].kind = "readme"
            /\ tasks[t].kind = "readme" => tasks[t].sent = 0
       /\ FannedOut =>
            /\ Len(tasks) = N + (IF readme THEN 1 ELSE 0)
            /\ Distinct =>
                  \A t, u \in 1..N : t # u => TaskPath(t) # TaskPath(u)

\* Two distinct resolutions and the flag: three tasks, all ended, main returned
C8_Witness ==
    /\ FannedOut
    /\ pc = "done"
    /\ Len(resolutions) = 2
    /\ Distinct
    /\ readme
    /\ Len(tasks) = 3
    /\ \A t \in Tasks : tasks[t].pc = "returned"

(* ------------------------------------------------------------------ *)
(* C9                                                                  *)
(* ------------------------------------------------------------------ *)

\* C9: the metadata endpoint is asked at most once in a run; as long as the
\* metadata fetch has not succeeded there is no task, no image request and no
\* change of the output directory; once a task exists the endpoint has been
\* asked exactly once (no task asks it again).
C9_MetadataFirstAndOnce ==
    /\ metaReqs <= 1
    /\ metaStatus # "ok" => tasks = <<>> /\ fs = InitFs
    /\ tasks # <<>> => metaReqs = 1 /\ metaStatus = "ok"

\* An image request has been sent and a file written, after one metadata request
C9_Witness ==
    /\ metaReqs = 1
    /\ \E t \in Tasks : tasks[t].sent = 1 /\ tasks[t].wrote > 0
    /\ fs # InitFs

(* ------------------------------------------------------------------ *)
(* C10                                                                 *)
(* ------------------------------------------------------------------ *)

\* C10: with distinct resolutions no two tasks (image or attribution) have the
\* same output path, so no path is ever open for writing in two tasks.
C10_DisjointPaths ==
    Distinct =>
        /\ \A t, u \in Tasks : t # u => TaskPath(t) # TaskPath(u)
        /\ \A t, u \in Tasks : (Opened(t) /\ Opened(u) /\ t # u) => TaskPath(t) # TaskPath(u)

\* Two image tasks of distinct resolutions and the attribution task all hold
\* their files open at once
C10_Witness ==
    /\ Distinct
    /\ Len(tasks) = 3
    /\ \A t \in Tasks : tasks[t].pc \in {"write", "sync"}

(* ------------------------------------------------------------------ *)
(* C11                                                                 *)
(* ------------------------------------------------------------------ *)

\* C11: no spawned task is ever cancelled: main never drops a task that is
\* still waiting for its request, its body or its first poll.
C11_NoCancellation ==
    \A t \in Tasks : tasks[t].pc # "cancelled"

(* ------------------------------------------------------------------ *)
(* C12                                                                 *)
(* ------------------------------------------------------------------ *)

\* The positions of a text at which the marker stands. The marker is no proper
\* prefix of a shifted copy of itself, so the occurrences never overlap.
Occurrences(s) ==
    {i \in 1..Len(s) : i + Len(Marker) - 1 <= Len(s)
                          /\ SubSeq(s, i, i + Len(Marker) - 1) = Marker}

RECURSIVE SpliceAll(_, _, _)
\* The text with `to` put in place of the marker at each of the positions,
\* the rightmost first
SpliceAll(s, positions, to) ==
    IF positions = {} THEN s
    ELSE LET i == CHOOSE p \in positions : \A q \in positions : q <= p
         IN SpliceAll(SubSeq(s, 1, i - 1) \o to \o SubSeq(s, i + Len(Marker), Len(s)),
                      positions \ {i}, to)

\* C12: the url an image task requests is the origin https://bing.com followed
\* by the template with the resolution's text {w}x{h} in place of every
\* occurrence of the marker 1920x1080; a template without the marker is
\* requested unchanged behind the origin.
C12_UrlDerivation ==
    \A t \in Tasks :
        tasks[t].sent > 0 =>
            LET R == Decimal(tasks[t].resolution.x) \o <<"x">>
                         \o Decimal(tasks[t].resolution.y)
            IN /\ TaskUrl(t) = Origin \o SpliceAll(url, Occurrences(url), R)
               /\ Occurrences(url) = {} => TaskUrl(t) = Origin \o url

\* A request was sent for a template holding the marker twice, for a
\* resolution at the ends of the u16 range
C12_Witness ==
    \E t \in Tasks :
        /\ tasks[t].sent > 0
        /\ tasks[t].resolution = NewResolution(0, U16Max)
        /\ Cardinality(Occurrences(url)) = 2

(* ------------------------------------------------------------------ *)
(* C13                                                                 *)
(* ------------------------------------------------------------------ *)

\* C13: the attribution task never sends a request, and once it has printed
\* its success line README.md holds exactly "# {title}\n## {copyright}\n",
\* built from the title and copyright main extracted.
C13_AttributionDocument ==
    \A t \in Tasks :
        tasks[t].kind = "readme" =>
            /\ tasks[t].sent = 0
            /\ SaidSuccess(t) =>
                  /\ ReadmePath \in DOMAIN fs
                  /\ fs[ReadmePath] =
                        AsBytes(<<"#", " ">> \o title \o <<"\n">>
                                \o <<"#", "#", " ">> \o copyright \o <<"\n">>)

(* ------------------------------------------------------------------ *)
(* C14                                                                 *)
(* ------------------------------------------------------------------ *)

\* C14: when the program is run a second time with the same command line on
\* the directory the first run left, and every stage succeeds in both runs,
\* then no stage of the second run fails, and when the second run has
\* returned the directory holds the same files with the same contents as the
\* first run left.
C14_Idempotent ==
    run = 2 =>
        /\ \A t \in Tasks : tasks[t].stage = "none" /\ tasks[t].pc \notin {"panicked", "cancelled"}
        /\ pc = "done" =>
              /\ exit = "ok"
              /\ \A t \in Tasks : SaidSuccess(t)
              /\ DOMAIN fs = DOMAIN left
              /\ fs = left

\* The second run has returned after three tasks, two of them on one path,
\* rewrote files the first run had written
C14_Witness ==
    /\ run = 2
    /\ pc = "done"
    /\ Len(tasks) = 3
    /\ ~Distinct
    /\ \A t \in Tasks : SaidSuccess(t) /\ fs[TaskPath(t)] = TaskPayload(t)

(* ------------------------------------------------------------------ *)
(* C15                                                                 *)
(* ------------------------------------------------------------------ *)

\* C15: a -r value that is the text to_string renders for a resolution
\* (w, h), w and h in 0..65535, is never rejected by the argument parser, and
\* the resolution the parser pushes for it is (w, h).
C15_RoundTrip ==
    \A i \in 1..Len(argv) :
        \A w \in ArgNumbers, h \in ArgNumbers :
            argv[i] = ResToString(NewResolution(w, h)) =>
                /\ i <= Len(resolutions) =>
                      resolutions[i].x = w /\ resolutions[i].y = h
                /\ (pc = "done" /\ exit = "usage") => i # Len(resolutions) + 1

\* Both ends of the range went through the parser in one value
C15_Witness ==
    /\ pc = "meta_get"
    /\ \E i \in 1..Len(resolutions) :
          /\ argv[i] = ResToString(NewResolution(U16Max, 0))
          /\ resolutions[i] = NewResolution(U16Max, 0)

(* ------------------------------------------------------------------ *)
(* C16                                                                 *)
(* ------------------------------------------------------------------ *)

\* C16: an image task ends at the fetch stage only when the request itself
\* failed (no response came) or the body read failed; a response of any
\* status whose body was read is handed to the persister, and when the write
\* took the whole body and no other task writes the path, the file holds the
\* body, whatever the status.
C16_StatusNotInspected ==
    \A t \in Tasks :
        tasks[t].kind = "image" =>
            /\ tasks[t].stage = "fetch" => tasks[t].status = 0
            /\ (tasks[t].status # 0 /\ tasks[t].stage # "body") =>
                  tasks[t].pc \in {"bytes", "create", "write", "sync", "cancelled"}
                      \/ tasks[t].stage \in {"create", "write", "sync"}
                      \/ tasks[t].synced
            /\ (Distinct /\ tasks[t].wrote = Len(ImageBody)) =>
                  fs[TaskPath(t)] = ImageBody

\* A response of status 404 was persisted and the task printed success
C16_Witness ==
    \E t \in Tasks :
        /\ tasks[t].status = 404
        /\ SaidSuccess(t)
        /\ fs[TaskPath(t)] = ImageBody

(* ------------------------------------------------------------------ *)
(* C17                                                                 *)
(* ------------------------------------------------------------------ *)

\* C17: a resolution requested twice gets two image tasks, both with the same
\* output path; once every task of that path has had its write return, the
\* file holds what one of them wrote (the bytes of the write that came last
\* lie over what was there).
C17_DuplicatesRace ==
    \A i, j \in 1..Len(resolutions) :
        (i < j /\ resolutions[i] = resolutions[j]) =>
            /\ FannedOut => {i, j} \subseteq Tasks
            /\ {i, j} \subseteq Tasks =>
                  /\ tasks[i].kind = "image" /\ tasks[j].kind = "image"
                  /\ TaskPath(i) = TaskPath(j)
                  /\ LET same == {t \in Tasks : tasks[t].kind = "image"
                                      /\ tasks[t].resolution = resolutions[i]}
                     IN (\A t \in same : tasks[t].wrote >= 0) =>
                            \E t \in same :
                                fs[TaskPath(i)] = SubSeq(ImageBody, 1, tasks[t].wrote)

\* Both tasks of a resolution requested twice have written; the task spawned
\* first wrote last, after creating the file anew: its short write is what
\* the file holds
C17_Witness ==
    /\ Len(resolutions) = 2
    /\ resolutions[1] = resolutions[2]
    /\ Len(tasks) >= 2
    /\ tasks[1].wrote = 1
    /\ tasks[2].wrote = Len(ImageBody)
    /\ fs[TaskPath(1)] = SubSeq(ImageBody, 1, 1)

(* ------------------------------------------------------------------ *)
(* C18                                                                 *)
(* ------------------------------------------------------------------ *)

\* C18: an image task has File::create return only after it received a
\* response and read its body; a task whose request or body read failed
\* never created or wrote its file, and, no other task having the same path,
\* that path is as it was before the run: absent, or with its old content.
C18_FetchFailureTouchesNothing ==
    \A t \in Tasks :
        tasks[t].kind = "image" =>
            /\ Opened(t) => tasks[t].status # 0 /\ tasks[t].stage \notin {"fetch", "body"}
            /\ tasks[t].stage \in {"fetch", "body"} =>
                  /\ tasks[t].wrote = -1
                  /\ Distinct =>
                        IF TaskPath(t) \in DOMAIN InitFs
                        THEN fs[TaskPath(t)] = InitFs[TaskPath(t)]
                        ELSE TaskPath(t) \notin DOMAIN fs

\* The body read failed in the task whose file existed before the run: the
\* old content is still there, while another task has written its file
C18_Witness ==
    /\ Distinct
    /\ fs # InitFs
    /\ \E t \in Tasks :
          /\ tasks[t].stage = "body"
          /\ tasks[t].pc = "returned"
          /\ TaskPath(t) \in DOMAIN InitFs
          /\ fs[TaskPath(t)] = OldContent

(* ------------------------------------------------------------------ *)
(* C19                                                                 *)
(* ------------------------------------------------------------------ *)

\* C19: a task never has more than one line printed, and a task that has
\* ended has exactly one: the success line on stdout exactly if create, write
\* and sync all returned Ok, otherwise one error line on stderr that shows
\* the url for a failed request or body read and the file path for a failed
\* create, write or sync.
C19_OneReportPerTask ==
    \A t \in Tasks :
        /\ Len(tasks[t].out) + Len(tasks[t].err) <= 1
        /\ tasks[t].pc \in Ended =>
              /\ Len(tasks[t].out) + Len(tasks[t].err) = 1
              /\ SaidSuccess(t) <=> (tasks[t].synced /\ tasks[t].stage = "none")
              /\ tasks[t].err # <<>> =>
                    tasks[t].err[1].target =
                        (IF tasks[t].stage \in {"fetch", "body"} THEN "url" ELSE "file_path")

(* ------------------------------------------------------------------ *)
(* C20                                                                 *)
(* ------------------------------------------------------------------ *)

\* C20: no file of the output directory is ever removed; once File::create
\* has returned Ok in a task, whatever the write and the sync return
\* afterwards, the file exists, no longer has the content it had before the
\* run and, no other task having the same path, holds a prefix of the
\* task's payload (nothing, a part, or all of it).
C20_NoCleanup ==
    /\ DOMAIN InitFs \subseteq DOMAIN fs
    /\ \A t \in Tasks :
          Opened(t) =>
              /\ TaskPath(t) \in DOMAIN fs
              /\ fs[TaskPath(t)] # OldContent
              /\ Distinct =>
                    \E n \in 0..Len(TaskPayload(t)) :
                        fs[TaskPath(t)] = SubSeq(TaskPayload(t), 1, n)

\* The write failed after the file that existed before the run had been
\* created anew: the task has returned and the file is left empty
C20_Witness ==
    \E t \in Tasks :
        /\ tasks[t].stage = "write"
        /\ tasks[t].pc = "returned"
        /\ TaskPath(t) \in DOMAIN InitFs
        /\ fs[TaskPath(t)] = <<>>

====
